---- MODULE Spec2Model ----
(***************************************************************************)
(* Model of mcp-bearer-token/mcp_starter.py: the mero_ai tool, its         *)
(* process-wide profile list and id counter, and the cosine similarity     *)
(* used to pick the best match.                                            *)
(*                                                                         *)
(* Numbers.  The code computes in IEEE doubles: math.sqrt, the product of  *)
(* the magnitudes, the quotient and the product by 100 are each rounded to *)
(* the nearest double, halves to even.  The model computes the same way    *)
(* with MantissaBits significant bits in place of 53.  The vectors have    *)
(* small integer entries, so the sums of products are exact.  A float is   *)
(* kept as the reduced fraction <<numerator, denominator>> it equals.      *)
(* All vectors but Diag have an integer norm: on them no operation rounds, *)
(* in the model as in doubles.  With Diag, at 13 bits every operation      *)
(* rounds to the same side as in doubles (similarity(Diag, Diag) is two    *)
(* half-units below 1, as 0.9999999999999998 is), so that all scores       *)
(* compare as CPython's do.                                                *)
(***************************************************************************)
EXTENDS Integers, Sequences, FiniteSets, TLC

\* Number of mero_ai requests of one process lifetime.
MaxCalls == 3

Tasks == 1..MaxCalls

\* Significant bits of a float of the model (a double has 53).
MantissaBits == 13

VARIABLES
    user_profiles_memory,   \* the module-level list, line 15
    USER_ID_COUNTER,        \* the module-level counter, line 16
    pc,                     \* per request: "pending", "saved", "done"
    running,                \* the coroutine the event loop is executing, 0 if none
    locals,                 \* per request: the handler's profile and new_user_id
    result                  \* per request: what the call returned or raised

vars == <<user_profiles_memory, USER_ID_COUNTER, pc, running, locals, result>>

----------------------------------------------------------------------------
\* Values of the analysis result (json.loads of the provider's text, or None).

\* A personality vector as found under the key "personality_vector":
\* has = FALSE when the key is absent; numeric = FALSE when an entry is not
\* a number (a JSON string or null), in which case v only keeps the length.
NoVector == [has |-> FALSE, numeric |-> TRUE, v |-> <<>>]
Vec(v) == [has |-> TRUE, numeric |-> TRUE, v |-> v]
NonNumericVec(n) == [has |-> TRUE, numeric |-> FALSE, v |-> [i \in 1..n |-> 0]]

NoInterests == [has |-> FALSE, v |-> <<>>]
Interests(s) == [has |-> TRUE, v |-> s]

\* kind: "none" is Python None; "list" is a JSON value that is not an object
\* (an array such as [1]); "dict" is a JSON object.
Dict(pvec, ints) == [kind |-> "dict", personality_vector |-> pvec, interests |-> ints, id |-> 0]
NoneResult == [kind |-> "none", personality_vector |-> NoVector, interests |-> NoInterests, id |-> 0]
ListResult == [kind |-> "list", personality_vector |-> NoVector, interests |-> NoInterests, id |-> 0]
EmptyDict == Dict(NoVector, NoInterests)

E1 == <<1, 0, 0, 0, 0>>
NegE1 == <<-1, 0, 0, 0, 0>>
TwoE1 == <<2, 0, 0, 0, 0>>
E2 == <<0, 1, 0, 0, 0>>
Zero5 == <<0, 0, 0, 0, 0>>
Half == <<1, 1, 1, 1, 0>>
Short3 == <<1, 0, 0>>
Diag == <<1, 1, 0, 0, 0>>

Vectors5 == {E1, NegE1, TwoE1, E2, Zero5, Half, Diag}

Chess == <<"chess", "music">>
Tea == <<"tea">>

WellFormed ==
    {Dict(Vec(v), Interests(Chess)) : v \in Vectors5}
        \cup {Dict(Vec(v), Interests(Tea)) : v \in {E1, Half}}

Malformed ==
    { ListResult,
      Dict(NoVector, Interests(Chess)),
      Dict(Vec(E1), NoInterests),
      Dict(NonNumericVec(5), Interests(Chess)),
      Dict(Vec(Short3), Interests(Chess)) }

\* Everything analyze_text_with_gemini can return.
AnalysisResults == {NoneResult, EmptyDict} \cup WellFormed \cup Malformed

\* Variant: the check of line 69 is missing, every result is taken as a profile.
TruthyAlways(p) == TRUE

\* Python truthiness of the analysis result (line 69: `not profile`).
Truthy(p) ==
    CASE p.kind = "none" -> FALSE
      [] p.kind = "list" -> TRUE
      [] OTHER -> p.personality_vector.has \/ p.interests.has

----------------------------------------------------------------------------
\* Arithmetic of custom_cosine_similarity.

Abs(n) == IF n < 0 THEN -n ELSE n
Min(a, b) == IF a < b THEN a ELSE b

RECURSIVE GCD(_, _)
GCD(a, b) == IF b = 0 THEN a ELSE GCD(b, a % b)

\* The value n/d (d > 0) as a reduced fraction.
Rat(n, d) == LET g == GCD(Abs(n), d) IN <<n \div g, d \div g>>

\* a > b for fractions with positive denominators.
Gt(a, b) == a[1] * b[2] > b[1] * a[2]

\* n/d (d > 0) rounded to the nearest integer, halves to the even one.
RoundHalfEven(n, d) ==
    LET q == n \div d
        r == n - q * d
    IN  IF 2 * r < d THEN q
        ELSE IF 2 * r > d THEN q + 1
        ELSE IF q % 2 = 0 THEN q ELSE q + 1

\* <<N, D, e>> with N/D = (n/d) * 2^e and 2^(MantissaBits-1) <= N/D < 2^MantissaBits.
RECURSIVE Normalise(_, _, _)
Normalise(n, d, e) ==
    IF n \div d < 2 ^ (MantissaBits - 1)
    THEN IF d % 2 = 0
         THEN Normalise(n, d \div 2, e + 1)
         ELSE Normalise(2 * n, d, e + 1)
    ELSE IF n \div d >= 2 ^ MantissaBits
         THEN Normalise(n, 2 * d, e - 1)
         ELSE <<n, d, e>>

\* The float nearest to n/d (d > 0): what one floating-point operation
\* returns for the exact result n/d.
FloatRound(n, d) ==
    IF n = 0
    THEN <<0, 1>>
    ELSE LET s == Normalise(Abs(n), d, 0)
             m == RoundHalfEven(s[1], s[2])
             sign == IF n < 0 THEN -1 ELSE 1
         IN  IF s[3] >= 0
             THEN Rat(sign * m, 2 ^ s[3])
             ELSE <<sign * m * 2 ^ (-s[3]), 1>>

\* a * b and a / b on floats (b > 0).
FloatMul(a, b) == FloatRound(a[1] * b[1], a[2] * b[2])
FloatDiv(a, b) == FloatRound(a[1] * b[2], a[2] * b[1])

\* The integer part of the square root of n, lo * lo <= n < hi * hi.
RECURSIVE IntSqrt(_, _, _)
IntSqrt(n, lo, hi) ==
    IF hi - lo <= 1
    THEN lo
    ELSE LET mid == (lo + hi) \div 2
         IN  IF mid * mid <= n THEN IntSqrt(n, mid, hi) ELSE IntSqrt(n, lo, mid)

\* <<N, e>> with N = n * 4^e and 4^(MantissaBits-1) <= N.
RECURSIVE ScaleSquare(_, _)
ScaleSquare(n, e) ==
    IF n < 4 ^ (MantissaBits - 1) THEN ScaleSquare(4 * n, e + 1) ELSE <<n, e>>

\* math.sqrt of an integer 0 <= n < 4^MantissaBits: the float nearest to the
\* square root (a square root is never halfway between two floats).
Sqrt(n) ==
    IF n = 0
    THEN <<0, 1>>
    ELSE LET s == ScaleSquare(n, 0)
             r == IntSqrt(s[1], 0, 2 ^ MantissaBits)
             m == IF s[1] > r * r + r THEN r + 1 ELSE r
         IN  Rat(m, 2 ^ s[2])

RECURSIVE SumTo(_, _)
SumTo(f, n) == IF n = 0 THEN 0 ELSE f[n] + SumTo(f, n - 1)

\* sum(p * q for p, q in zip(vec1, vec2)): zip stops at the shorter vector.
DotProduct(vec1, vec2) ==
    LET n == Min(Len(vec1), Len(vec2))
    IN  SumTo([i \in 1..n |-> vec1[i] * vec2[i]], n)

Magnitude(vec) == Sqrt(SumTo([i \in 1..Len(vec) |-> vec[i] * vec[i]], Len(vec)))

\* Variant of line 25: a vector without signal counts as the most dissimilar.
cosine_zero_as_minus_one(vec1, vec2) ==
    LET dot_product == DotProduct(vec1, vec2)
        magnitude1 == Magnitude(vec1)
        magnitude2 == Magnitude(vec2)
    IN  IF magnitude1 = <<0, 1>> \/ magnitude2 = <<0, 1>>
        THEN <<-1, 1>>
        ELSE FloatDiv(<<dot_product, 1>>, FloatMul(magnitude1, magnitude2))

\* Variant of line 26: the quotient is taken by the first magnitude alone.
cosine_by_magnitude1(vec1, vec2) ==
    LET dot_product == DotProduct(vec1, vec2)
        magnitude1 == Magnitude(vec1)
        magnitude2 == Magnitude(vec2)
    IN  IF magnitude1 = <<0, 1>> \/ magnitude2 = <<0, 1>>
        THEN <<0, 1>>
        ELSE FloatDiv(<<dot_product, 1>>, magnitude1)

\* Variant of line 26: the first magnitude is used twice.
cosine_magnitude1_twice(vec1, vec2) ==
    LET dot_product == DotProduct(vec1, vec2)
        magnitude1 == Magnitude(vec1)
        magnitude2 == Magnitude(vec2)
    IN  IF magnitude1 = <<0, 1>> \/ magnitude2 = <<0, 1>>
        THEN <<0, 1>>
        ELSE FloatDiv(<<dot_product, 1>>, FloatMul(magnitude1, magnitude1))

custom_cosine_similarity(vec1, vec2) ==
    LET dot_product == DotProduct(vec1, vec2)
        magnitude1 == Magnitude(vec1)
        magnitude2 == Magnitude(vec2)
    IN  IF magnitude1 = <<0, 1>> \/ magnitude2 = <<0, 1>>
        THEN <<0, 1>>
        ELSE FloatDiv(<<dot_product, 1>>, FloatMul(magnitude1, magnitude2))

\* The vectors an analysis result can carry.
AllVectors == Vectors5 \cup {Short3}

\* custom_cosine_similarity on the vectors of the model, each value computed
\* once.
SimilarityTable ==
    [vec1 \in AllVectors |->
        [vec2 \in AllVectors |-> custom_cosine_similarity(vec1, vec2)]]

\* The call of line 85.
Similarity(vec1, vec2) == SimilarityTable[vec1][vec2]

----------------------------------------------------------------------------
\* The handler mero_ai.

\* What one comparison of line 85 does: the two subscripts are evaluated
\* first (KeyError when the key is absent), then the similarity (TypeError
\* when an entry is not a number).
CompareError(profile, other_profile) ==
    IF ~profile.personality_vector.has \/ ~other_profile.personality_vector.has
    THEN "KeyError"
    ELSE IF ~profile.personality_vector.numeric \/ ~other_profile.personality_vector.numeric
         THEN "TypeError"
         ELSE ""

\* Lines 79-80: best_match = None (0 here), highest_similarity = -1.
ScanInit == [best_match |-> 0, highest_similarity |-> <<-1, 1>>, scanned |-> {}, err |-> ""]

\* Variant of line 86: highest_similarity is never updated (line 87 lost), so
\* every candidate is compared with the initial -1.
BetterThanInitial(similarity, st) == Gt(similarity, ScanInit.highest_similarity)

\* Variant of line 86: >= in place of >.
BetterOrEqual(similarity, st) == ~Gt(st.highest_similarity, similarity)

\* Line 86: similarity > highest_similarity.
Better(similarity, st) == Gt(similarity, st.highest_similarity)

\* Lines 83-88, from position i of the list on: best_match is the position of
\* the chosen profile in the list; scanned collects the ids compared.
RECURSIVE Scan(_, _, _, _, _)
Scan(memory, i, profile, new_user_id, st) ==
    IF i > Len(memory) \/ st.err # ""
    THEN st
    ELSE LET other_profile == memory[i] IN
         IF other_profile.id = new_user_id
         THEN Scan(memory, i + 1, profile, new_user_id, st)
         ELSE LET e == CompareError(profile, other_profile) IN
              IF e # ""
              THEN [st EXCEPT !.err = e, !.scanned = @ \cup {other_profile.id}]
              ELSE LET similarity == Similarity(profile.personality_vector.v,
                                                other_profile.personality_vector.v)
                       seen == [st EXCEPT !.scanned = @ \cup {other_profile.id}]
                   IN  IF Better(similarity, st)
                       THEN Scan(memory, i + 1, profile, new_user_id,
                                 [seen EXCEPT !.highest_similarity = similarity,
                                              !.best_match = i])
                       ELSE Scan(memory, i + 1, profile, new_user_id, seen)

\* Variant: the test of line 84 is missing, the new profile is a candidate too.
FindBestMatchNoSkip(memory, profile, new_user_id) ==
    IF Len(memory) > 1
    THEN Scan(memory, 1, profile, 0, ScanInit)
    ELSE ScanInit

\* Variant: only the stored profiles that share the interests of the new
\* profile are candidates.
FindBestMatchByInterests(memory, profile, new_user_id) ==
    IF Len(memory) > 1
    THEN Scan([i \in 1..Len(memory) |->
                  IF memory[i].interests = profile.interests
                  THEN memory[i]
                  ELSE [memory[i] EXCEPT !.id = new_user_id]],
              1, profile, new_user_id, ScanInit)
    ELSE ScanInit

\* Lines 79-88: the scan runs only when the list holds more than one profile.
FindBestMatch(memory, profile, new_user_id) ==
    IF Len(memory) > 1
    THEN Scan(memory, 1, profile, new_user_id, ScanInit)
    ELSE ScanInit

\* ", ".join(interests), line 91.
RECURSIVE Join(_)
Join(s) ==
    IF Len(s) = 0 THEN ""
    ELSE IF Len(s) = 1 THEN s[1]
    ELSE s[1] \o ", " \o Join(Tail(s))

\* round(x * 100), line 100: the product is a float, and Python rounds it
\* to the nearest integer, halves to the even one.
RoundPercent(x) ==
    LET y == FloatMul(x, <<100, 1>>)
    IN  RoundHalfEven(y[1], y[2])

\* Variant: the handler awaits between the append and the scan.
AwaitAfterSave == {"saved"}

\* The points of mero_ai at which the coroutine awaits and gives the event
\* loop to another request: the body holds no await.
AwaitPoints == {}

NoLocals == [profile |-> NoneResult, new_user_id |-> 0]

\* analysis is what analyze_text_with_gemini returned to the call.
NoResult ==
    [outcome |-> "none", analysis |-> NoneResult, err |-> "", new_user_id |-> 0,
     best_match |-> 0,
     highest_similarity |-> <<-1, 1>>, similarity_percent |-> 0,
     scanned |-> {}, interests_output |-> ""]

\* Line 70: the fixed apology.
Apology(analysis) == [NoResult EXCEPT !.outcome = "apology", !.analysis = analysis]

\* An exception leaving the handler.
Raised(analysis, e, id, scanned) ==
    [NoResult EXCEPT !.outcome = "raised", !.analysis = analysis, !.err = e,
                     !.new_user_id = id, !.scanned = scanned]

\* Variant: the profile is inserted at the head of the list.
SaveAtHead(memory, stored) == <<stored>> \o memory

\* Line 76: user_profiles_memory.append(profile).
Save(memory, stored) == Append(memory, stored)

Init ==
    /\ user_profiles_memory = <<>>
    /\ USER_ID_COUNTER = 0
    /\ pc = [t \in Tasks |-> "pending"]
    /\ running = 0
    /\ locals = [t \in Tasks |-> NoLocals]
    /\ result = [t \in Tasks |-> NoResult]

\* Lines 67-76: the analysis, the apology, the id and the append.  Requests
\* are numbered in the order in which the event loop starts them.
Start(t) ==
    /\ pc[t] = "pending"
    /\ running = 0
    /\ \A u \in Tasks : u < t => pc[u] # "pending"
    /\ \E profile \in AnalysisResults :
          IF ~Truthy(profile)
          THEN /\ pc' = [pc EXCEPT ![t] = "done"]
               /\ result' = [result EXCEPT ![t] = Apology(profile)]
               /\ UNCHANGED <<user_profiles_memory, USER_ID_COUNTER, running, locals>>
          ELSE LET new_user_id == USER_ID_COUNTER + 1 IN
               /\ USER_ID_COUNTER' = new_user_id
               /\ IF profile.kind # "dict"
                  THEN \* profile['id'] = ... on a value that is no dict
                       /\ pc' = [pc EXCEPT ![t] = "done"]
                       /\ result' = [result EXCEPT ![t] = Raised(profile, "TypeError", new_user_id, {})]
                       /\ UNCHANGED <<user_profiles_memory, running, locals>>
                  ELSE LET stored == [profile EXCEPT !.id = new_user_id] IN
                       /\ user_profiles_memory' = Save(user_profiles_memory, stored)
                       /\ locals' = [locals EXCEPT ![t] =
                                        [profile |-> stored, new_user_id |-> new_user_id]]
                       /\ pc' = [pc EXCEPT ![t] = "saved"]
                       /\ running' = IF "saved" \in AwaitPoints THEN 0 ELSE t
                       /\ result' = [result EXCEPT ![t].analysis = profile,
                                                    ![t].new_user_id = new_user_id]

\* Lines 78-110: the scan for the best match and the response.
Finish(t) ==
    /\ pc[t] = "saved"
    /\ running \in {0, t}
    /\ LET profile == locals[t].profile
           new_user_id == locals[t].new_user_id
           st == FindBestMatch(user_profiles_memory, profile, new_user_id)
       IN  result' = [result EXCEPT ![t] =
              IF st.err # ""
              THEN Raised(result[t].analysis, st.err, new_user_id, st.scanned)
              ELSE IF ~profile.interests.has
              THEN Raised(result[t].analysis, "KeyError", new_user_id, st.scanned)
              ELSE [outcome |-> IF st.best_match # 0 THEN "match" ELSE "first",
                    analysis |-> result[t].analysis,
                    err |-> "",
                    new_user_id |-> new_user_id,
                    best_match |-> IF st.best_match # 0
                                   THEN user_profiles_memory[st.best_match].id
                                   ELSE 0,
                    highest_similarity |-> st.highest_similarity,
                    similarity_percent |-> IF st.best_match # 0
                                           THEN RoundPercent(st.highest_similarity)
                                           ELSE 0,
                    scanned |-> st.scanned,
                    interests_output |-> Join(profile.interests.v)]]
    /\ pc' = [pc EXCEPT ![t] = "done"]
    /\ running' = 0
    /\ locals' = [locals EXCEPT ![t] = NoLocals]
    /\ UNCHANGED <<user_profiles_memory, USER_ID_COUNTER>>

Next == \E t \in Tasks : Start(t) \/ Finish(t)

Spec == Init /\ [][Next]_vars

----------------------------------------------------------------------------
\* Vocabulary of the properties.

\* The call returned its response (no apology, no exception).
Succeeded(t) == pc[t] = "done" /\ result[t].outcome \in {"match", "first"}

StoredIds == {user_profiles_memory[i].id : i \in 1..Len(user_profiles_memory)}

\* The stored profile with the given id.
ProfileWithId(id) ==
    user_profiles_memory[CHOOSE i \in 1..Len(user_profiles_memory) :
                             user_profiles_memory[i].id = id]

\* The ids stored before the profile of request t.
PriorIds(t) == {id \in StoredIds : id < result[t].new_user_id}

\* a < b for scores (fractions with positive denominators).
ScoreLess(a, b) == a[1] * b[2] < b[1] * a[2]

\* The similarity of the profile of request t to the stored profile id.
SimilarityTo(t, id) ==
    Similarity(ProfileWithId(result[t].new_user_id).personality_vector.v,
                             ProfileWithId(id).personality_vector.v)

----------------------------------------------------------------------------
\* C1: the ids of the stored profiles are 1, 2, 3, ... in arrival order: the
\* profile at position i of the list has id i.
C1_IdsCountFromOne ==
    \A i \in 1..Len(user_profiles_memory) : user_profiles_memory[i].id = i

\* C2: when the analysis returns None, the call returns the apology and
\* leaves user_profiles_memory and USER_ID_COUNTER as they were.
C2_NoneLeavesStore ==
    [][\A t \in Tasks :
          (pc[t] = "pending" /\ pc'[t] # "pending"
              /\ result'[t].analysis = NoneResult)
          => /\ pc'[t] = "done"
             /\ result'[t].outcome = "apology"
             /\ user_profiles_memory' = user_profiles_memory
             /\ USER_ID_COUNTER' = USER_ID_COUNTER]_vars

\* A call got None from the analysis and apologised while a profile was stored.
C2_Witness ==
    \E t \in Tasks :
        /\ pc[t] = "done"
        /\ result[t].analysis = NoneResult
        /\ result[t].outcome = "apology"
        /\ Len(user_profiles_memory) >= 1

\* C3: a reported match is a prior profile whose similarity to the new profile
\* is at least that of every prior profile, and the score reported is the
\* similarity of the new profile to the reported one.
C3_MatchIsMaximal ==
    \A t \in Tasks :
        (pc[t] = "done" /\ result[t].outcome = "match")
        => /\ result[t].best_match \in PriorIds(t)
           /\ result[t].highest_similarity = SimilarityTo(t, result[t].best_match)
           /\ \A id \in PriorIds(t) :
                 ~ScoreLess(result[t].highest_similarity, SimilarityTo(t, id))

\* A match was reported among two priors of different similarity, the better
\* one not being the last scanned.
C3_Witness ==
    \E t \in Tasks :
        /\ pc[t] = "done" /\ result[t].outcome = "match"
        /\ \E id \in PriorIds(t) :
              /\ id > result[t].best_match
              /\ ScoreLess(SimilarityTo(t, id), result[t].highest_similarity)

\* C4: among prior profiles that share the maximum similarity, the one
\* reported is the earliest stored (the lowest id).
C4_FirstWinsTie ==
    \A t \in Tasks :
        (pc[t] = "done" /\ result[t].outcome = "match")
        => \A id \in PriorIds(t) :
              SimilarityTo(t, id) = result[t].highest_similarity
              => result[t].best_match <= id

\* Two priors tie at the maximum and the earlier one is reported.
C4_Witness ==
    \E t \in Tasks :
        /\ pc[t] = "done" /\ result[t].outcome = "match"
        /\ \E id \in PriorIds(t) :
              /\ id > result[t].best_match
              /\ SimilarityTo(t, id) = result[t].highest_similarity
              /\ ProfileWithId(id).personality_vector
                    # ProfileWithId(result[t].best_match).personality_vector

\* C5: a successful ingest that had a prior profile in the store always
\* reports a match, also when every similarity is -1.
C5_AlwaysMatchWithPrior ==
    \A t \in Tasks :
        (Succeeded(t) /\ PriorIds(t) # {}) => result[t].outcome = "match"

\* C6: vectors of different lengths are never compared as if they matched: an
\* ingest that met a prior vector of another length does not return a response.
C6_MismatchIsReported ==
    \A t \in Tasks :
        Succeeded(t)
        => \A id \in result[t].scanned :
              Len(ProfileWithId(id).personality_vector.v)
                 = Len(result[t].analysis.personality_vector.v)

\* C7: with several requests in flight, each ingest that stored a profile is
\* compared with exactly the profiles whose ids are smaller than its own, no
\* two requests get the same id, and no two see an empty store.
C7_AtomicIngest ==
    /\ \A t \in Tasks :
          (pc[t] = "done" /\ result[t].new_user_id \in StoredIds)
          => /\ result[t].scanned \subseteq PriorIds(t)
             /\ Succeeded(t) => result[t].scanned = PriorIds(t)
    /\ \A t, u \in Tasks :
          (t # u /\ result[t].new_user_id # 0 /\ result[u].new_user_id # 0)
          => result[t].new_user_id # result[u].new_user_id
    /\ \A t, u \in Tasks :
          (/\ t # u
           /\ pc[t] = "done" /\ result[t].new_user_id \in StoredIds
           /\ pc[u] = "done" /\ result[u].new_user_id \in StoredIds)
          => ~(result[t].scanned = {} /\ result[u].scanned = {})

\* Two ingests have completed while a third request was still waiting for the
\* event loop, and the later one was compared with the earlier one.
C7_Witness ==
    \E t, u, w \in Tasks :
        /\ Succeeded(t) /\ Succeeded(u) /\ pc[w] = "pending"
        /\ result[t].scanned = {}
        /\ result[u].scanned = {result[t].new_user_id}

\* C8: the list only grows at its end: no step changes or moves a stored
\* profile, the step that stores a profile appends exactly that profile with
\* its id, and the rest of the call leaves the list alone.
C8_AppendOnly ==
    [][/\ Len(user_profiles_memory') \in
             {Len(user_profiles_memory), Len(user_profiles_memory) + 1}
       /\ \A i \in 1..Len(user_profiles_memory) :
             user_profiles_memory'[i] = user_profiles_memory[i]
       /\ \A t \in Tasks :
             (pc[t] = "pending" /\ pc'[t] = "saved")
             => /\ Len(user_profiles_memory') = Len(user_profiles_memory) + 1
                /\ user_profiles_memory'[Len(user_profiles_memory')]
                      = [result'[t].analysis EXCEPT !.id = result'[t].new_user_id]
       /\ \A t \in Tasks :
             (pc[t] = "saved" /\ pc'[t] = "done")
             => user_profiles_memory' = user_profiles_memory]_vars

\* Three ingests have succeeded and the list holds their three profiles.
C8_Witness ==
    /\ \A t \in Tasks : Succeeded(t)
    /\ Len(user_profiles_memory) = Cardinality(Tasks)

\* The malformed results the claim names: no record, no vector, no interests,
\* entries that are not numbers.
IsMalformed(p) ==
    \/ p.kind = "list"
    \/ /\ p.kind = "dict"
       /\ \/ ~p.personality_vector.has
          \/ ~p.personality_vector.numeric
          \/ ~p.interests.has

\* C9: a malformed, non-empty analysis result is rejected before the store is
\* touched: it takes no id, is never stored, and no ingest of a well-formed
\* profile fails.
C9_MalformedRejected ==
    /\ \A i \in 1..Len(user_profiles_memory) : ~IsMalformed(user_profiles_memory[i])
    /\ \A t \in Tasks :
          (pc[t] = "done" /\ Truthy(result[t].analysis) /\ IsMalformed(result[t].analysis))
          => result[t].outcome = "raised" /\ result[t].new_user_id = 0
    /\ \A t \in Tasks :
          (pc[t] = "done" /\ result[t].analysis \in WellFormed)
          => result[t].outcome # "raised"

\* C10: the ingest whose profile is the first of the list reports no match and
\* leaves the list with that one profile; no ingest compares a profile with
\* itself or reports it as its own match.
C10_FirstIngestNoSelfMatch ==
    [][\A t \in Tasks :
          (pc[t] = "saved" /\ pc'[t] = "done")
          => /\ result'[t].new_user_id \notin result'[t].scanned
             /\ result'[t].best_match # result'[t].new_user_id
             /\ (/\ user_profiles_memory[1].id = result'[t].new_user_id
                 /\ result'[t].outcome # "raised")
                => /\ Len(user_profiles_memory') = 1
                   /\ result'[t].outcome = "first"
                   /\ result'[t].best_match = 0
                   /\ result'[t].scanned = {}]_vars

\* The first ingest has returned "one of the first" and a second one has
\* been matched with it.
C10_Witness ==
    \E t, u \in Tasks :
        /\ Succeeded(t) /\ result[t].outcome = "first"
        /\ user_profiles_memory[1].id = result[t].new_user_id
        /\ Succeeded(u) /\ result[u].best_match = result[t].new_user_id

\* The stored profile carries a list of numbers as its vector.
HasNumericVector(p) == p.personality_vector.has /\ p.personality_vector.numeric

IsZeroVector(v) == \A i \in 1..Len(v) : v[i] = 0

\* Every profile stored before that of request t can be compared with it.
PriorsComparable(t) ==
    \A id \in PriorIds(t) : HasNumericVector(ProfileWithId(id))

C12_Symmetric ==
    /\ \A i, j \in 1..Len(user_profiles_memory) :
          LET p == user_profiles_memory[i]
              q == user_profiles_memory[j]
          IN  (HasNumericVector(p) /\ HasNumericVector(q))
              => Similarity(p.personality_vector.v, q.personality_vector.v)
                    = Similarity(q.personality_vector.v, p.personality_vector.v)
    /\ \A t \in Tasks :
          (pc[t] = "done" /\ result[t].outcome = "match")
          => result[t].highest_similarity
                = Similarity(
                      ProfileWithId(result[t].best_match).personality_vector.v,
                      ProfileWithId(result[t].new_user_id).personality_vector.v)

\* A match was reported between two vectors of different norm and of
\* different length, at a score other than 0.
C12_Witness ==
    \E t, u \in Tasks :
        /\ pc[t] = "done" /\ result[t].outcome = "match"
        /\ pc[u] = "done" /\ result[u].outcome = "match"
        /\ result[t].highest_similarity = <<1, 2>>
        /\ Len(ProfileWithId(result[u].best_match).personality_vector.v)
              # Len(result[u].analysis.personality_vector.v)
        /\ result[u].highest_similarity # <<0, 1>>

\* The interests lists of the analysis results.
InterestLists == {Chess, Tea}

\* The position in the list of the stored profile with the given id.
PositionOfId(id) ==
    CHOOSE i \in 1..Len(user_profiles_memory) : user_profiles_memory[i].id = id

\* The list with the interests of its profiles replaced by those f gives.
WithInterests(memory, f) ==
    [i \in 1..Len(memory) |->
        IF memory[i].interests.has
        THEN [memory[i] EXCEPT !.interests = Interests(f[i])]
        ELSE memory[i]]

\* C14: interests do not influence matching: had the profiles ingested so far
\* carried any other interests lists, the ingest of request t would have
\* reported the same matched id and the same score.
C14_InterestsDoNotMatter ==
    \A t \in Tasks :
        Succeeded(t)
        => LET k == PositionOfId(result[t].new_user_id)
           IN  \A f \in [1..k -> InterestLists] :
                  LET memory == WithInterests(SubSeq(user_profiles_memory, 1, k), f)
                      st == FindBestMatch(memory, memory[k], result[t].new_user_id)
                  IN  /\ st.err = ""
                      /\ st.highest_similarity = result[t].highest_similarity
                      /\ (IF st.best_match = 0 THEN 0 ELSE memory[st.best_match].id)
                            = result[t].best_match

\* A profile was matched with a prior profile of other interests although a
\* later prior profile shares its interests.
C14_Witness ==
    \E t \in Tasks :
        /\ Succeeded(t) /\ result[t].outcome = "match"
        /\ ProfileWithId(result[t].best_match).interests # result[t].analysis.interests
        /\ \E id \in PriorIds(t) :
              /\ id > result[t].best_match
              /\ ProfileWithId(id).interests = result[t].analysis.interests

\* C15: in every reachable state the number of stored profiles equals
\* USER_ID_COUNTER and the profile at position i has id i.
C15_StoreMatchesCounter ==
    /\ Len(user_profiles_memory) = USER_ID_COUNTER
    /\ \A i \in 1..Len(user_profiles_memory) : user_profiles_memory[i].id = i

\* C16: a reported match is the id of a profile in the store, strictly smaller
\* than the id given to the new profile.
C16_MatchIsEarlierStored ==
    \A t \in Tasks :
        (pc[t] = "done" /\ result[t].outcome = "match")
        => /\ \E i \in 1..Len(user_profiles_memory) :
                 user_profiles_memory[i].id = result[t].best_match
           /\ result[t].best_match < result[t].new_user_id
           /\ result[t].best_match >= 1

\* The third profile was matched with the second one, of the same vector.
C16_Witness ==
    \E t \in Tasks :
        /\ pc[t] = "done" /\ result[t].outcome = "match"
        /\ result[t].new_user_id = 3
        /\ result[t].best_match = 2
        /\ ProfileWithId(2).personality_vector = result[t].analysis.personality_vector

\* The sum of the squares of the entries is the square of an integer.
HasIntegerNorm(v) ==
    LET sq == SumTo([i \in 1..Len(v) |-> v[i] * v[i]], Len(v))
    IN  \E r \in 0..sq : r * r = sq

\* |x - 1| <= 4 * 2^(-MantissaBits): four rounding errors of one operation.
NearOne(x) == Abs(x[1] - x[2]) * 2 ^ (MantissaBits - 2) <= x[2]

\* Request t ingested a well-formed profile, second in the list, whose vector
\* is not all-zero and equals that of the only profile stored before it.
IngestedTwin(t) ==
    /\ pc[t] = "done"
    /\ result[t].analysis \in WellFormed
    /\ Len(user_profiles_memory) >= 2
    /\ user_profiles_memory[2].id = result[t].new_user_id
    /\ user_profiles_memory[1].personality_vector = result[t].analysis.personality_vector
    /\ ~IsZeroVector(result[t].analysis.personality_vector.v)

\* C13: for every vector v that is not all-zero, similarity(v, v) is 1.0, and
\* ingesting a profile with the vector of the only stored profile reports that
\* profile with score 1.0 (100%).
C13_SelfSimilarityIsOne ==
    /\ \A i \in 1..Len(user_profiles_memory) :
          LET p == user_profiles_memory[i]
          IN  (HasNumericVector(p) /\ ~IsZeroVector(p.personality_vector.v))
              => Similarity(p.personality_vector.v, p.personality_vector.v) = <<1, 1>>
    /\ \A t \in Tasks :
          IngestedTwin(t)
          => /\ result[t].outcome = "match"
             /\ result[t].best_match = user_profiles_memory[1].id
             /\ result[t].highest_similarity = <<1, 1>>
             /\ result[t].similarity_percent = 100

\* C13 as amended: similarity(v, v) is 1.0 up to the rounding of the square
\* root, the product and the quotient, and exactly 1.0 when the norm of v is
\* an integer; the ingest of a twin of the only stored profile reports that
\* profile at 100%.
C13_SelfSimilarityNearOne ==
    /\ \A i \in 1..Len(user_profiles_memory) :
          LET p == user_profiles_memory[i]
          IN  (HasNumericVector(p) /\ ~IsZeroVector(p.personality_vector.v))
              => LET x == Similarity(p.personality_vector.v, p.personality_vector.v)
                 IN  /\ NearOne(x)
                     /\ HasIntegerNorm(p.personality_vector.v) => x = <<1, 1>>
    /\ \A t \in Tasks :
          IngestedTwin(t)
          => /\ result[t].outcome = "match"
             /\ result[t].best_match = user_profiles_memory[1].id
             /\ NearOne(result[t].highest_similarity)
             /\ HasIntegerNorm(result[t].analysis.personality_vector.v)
                   => result[t].highest_similarity = <<1, 1>>
             /\ result[t].similarity_percent = 100

\* A twin of the only stored profile was ingested with a vector whose norm is
\* no integer: the score is not 1.0 and 100% is reported; another twin, of
\* integer norm greater than 1, got the score 1.0.
C13_Witness ==
    /\ \E t \in Tasks :
          /\ IngestedTwin(t)
          /\ ~HasIntegerNorm(result[t].analysis.personality_vector.v)
          /\ result[t].highest_similarity # <<1, 1>>
          /\ result[t].similarity_percent = 100
    /\ \E i \in 1..Len(user_profiles_memory) :
          /\ user_profiles_memory[i].personality_vector = Vec(Half)
          /\ Similarity(Half, Half) = <<1, 1>>

====
